---- MODULE Spec2Model ----
(***************************************************************************)
(* Model of vn2inventory: the multi-period inventory simulator             *)
(* (sim_env.py, class InventorySim) and the base-stock order policy        *)
(* (policy.py, compute_base_stock_levels / compute_orders).                *)
(*                                                                         *)
(* Quantities of the simulator are whole units (the floats of the code     *)
(* hold whole numbers); money is counted in tenths of a cost unit, so the  *)
(* default Costs(0.2, 1.0) is (2, 10).                                     *)
(***************************************************************************)
EXTENDS Integers, Sequences, FiniteSets, TLC

VARIABLES
    sales,      \* InventorySim.sales restricted to dates: sequence of demand columns
    costs,      \* InventorySim.costs
    state,      \* InventorySim.state (SimState)
    t,          \* InventorySim.t
    op,         \* the last call made on the simulator, with its argument
    ret,        \* what that call returned (metrics record) or raised
    snap,       \* the snapshot the run started from (__init__ or reset_to)
    trail,      \* the steps of the run so far: locals and returned metrics
    call,       \* the arguments of a compute_orders call
    levels,     \* what compute_base_stock_levels returned for them ({} before the call)
    order_qty   \* what compute_orders returned for them ({} before the call)

simvars == <<sales, costs, state, t, op, ret, snap, trail>>
polvars == <<call, levels, order_qty>>
vars == <<simvars, polvars>>

----------------------------------------------------------------------------
(* Bounds of the model *)

MaxPeriods == 3

Keys == {"k1", "k2"}

Max(a, b) == IF a >= b THEN a ELSE b
Min(a, b) == IF a <= b THEN a ELSE b

RECURSIVE SumOver(_, _)
SumOver(f, S) ==
    IF S = {} THEN 0
    ELSE LET k == CHOOSE x \in S : TRUE
         IN  f[k] + SumOver(f, S \ {k})

Col(a, b) == [k \in Keys |-> IF k = "k1" THEN a ELSE b]
ZeroCol == [k \in Keys |-> 0]

----------------------------------------------------------------------------
(* Inputs *)

DemandColumns == {Col(0, 3), Col(2, 1)}

SalesTables == UNION {[1..n -> DemandColumns] : n \in 1..MaxPeriods}

DefaultCosts == [holding_per_unit |-> 2, shortage_per_unit |-> 10]

CostsChoices == {DefaultCosts, [holding_per_unit |-> 5, shortage_per_unit |-> 20]}

\* A snapshot table: a function from the column names it has to columns.
Snapshots ==
    { ("End Inventory" :> Col(0, 2)),
      ("End Inventory" :> Col(3, 0)) @@ ("In Transit W+1" :> Col(1, 0))
         @@ ("Cumulative Holding Cost" :> Col(4, 6)),
      ("End Inventory" :> Col(1, 1)) @@ ("In Transit W+2" :> Col(0, 2))
         @@ ("Cumulative Holding Cost" :> Col(0, 2))
         @@ ("Cumulative Shortage Cost" :> Col(10, 0)),
      ("End Inventory" :> Col(-1, 2)) @@ ("In Transit W+1" :> Col(0, -1))
         @@ ("In Transit W+2" :> Col(-2, 1)) }

\* An orders Series: any subset of the keys (a key left out is an order of
\* nothing), any sign.
OrderValues == {-1, 2}

OrderSeries == UNION {[ks -> OrderValues] : ks \in SUBSET Keys}

----------------------------------------------------------------------------
(* InventorySim *)

\* st.get(name, default)
Get(st, name, default) == IF name \in DOMAIN st THEN st[name] ELSE default

\* SimState(...) as built by __init__
InitialState(st) ==
    [end_inventory       |-> st["End Inventory"],
     in_transit_w1       |-> Get(st, "In Transit W+1", ZeroCol),
     in_transit_w2       |-> Get(st, "In Transit W+2", ZeroCol),
     cumulative_holding  |-> SumOver(Get(st, "Cumulative Holding Cost", ZeroCol), Keys),
     cumulative_shortage |-> SumOver(Get(st, "Cumulative Shortage Cost", ZeroCol), Keys)]

\* AlignOrders without the clip at 0: a negative order goes through.
AlignOrdersNoClip(orders) ==
    [k \in Keys |-> IF k \in DOMAIN orders THEN orders[k] ELSE 0]

\* orders.reindex(self.index).fillna(0).astype(float).clip(lower=0.0)
AlignOrders(orders) ==
    [k \in Keys |-> IF k \in DOMAIN orders THEN Max(orders[k], 0) ELSE 0]

\* self.sales[self.dates[self.t]]: defined only while t < len(dates)
current_demand == sales[t + 1]

\* StepLocals selling the whole demand, whatever is on the shelf.
StepLocalsSellsDemand(orders) ==
    LET o == AlignOrders(orders)
        demand == current_demand
        start_inventory == [k \in Keys |-> state.end_inventory[k] + state.in_transit_w1[k]]
        sold == demand
        missed == [k \in Keys |-> demand[k] - sold[k]]
        end_inventory == [k \in Keys |-> start_inventory[k] - sold[k]]
    IN  [orders          |-> o,
         demand          |-> demand,
         start_inventory |-> start_inventory,
         sales           |-> sold,
         missed          |-> missed,
         end_inventory   |-> end_inventory,
         new_w1          |-> state.in_transit_w2,
         new_w2          |-> o,
         holding_cost    |-> SumOver([k \in Keys |-> end_inventory[k] * costs.holding_per_unit], Keys),
         shortage_cost   |-> SumOver([k \in Keys |-> missed[k] * costs.shortage_per_unit], Keys)]

\* The locals of one successful step.
StepLocals(orders) ==
    LET o == AlignOrders(orders)
        demand == current_demand
        start_inventory == [k \in Keys |-> state.end_inventory[k] + state.in_transit_w1[k]]
        sold == [k \in Keys |-> Min(start_inventory[k], demand[k])]
        missed == [k \in Keys |-> demand[k] - sold[k]]
        end_inventory == [k \in Keys |-> start_inventory[k] - sold[k]]
    IN  [orders          |-> o,
         demand          |-> demand,
         start_inventory |-> start_inventory,
         sales           |-> sold,
         missed          |-> missed,
         end_inventory   |-> end_inventory,
         new_w1          |-> state.in_transit_w2,
         new_w2          |-> o,
         holding_cost    |-> SumOver([k \in Keys |-> end_inventory[k] * costs.holding_per_unit], Keys),
         shortage_cost   |-> SumOver([k \in Keys |-> missed[k] * costs.shortage_per_unit], Keys)]

\* StepState with the order put on the one-week stage of the pipeline.
StepStateOneWeekLead(l) ==
    [end_inventory       |-> l.end_inventory,
     in_transit_w1       |-> l.new_w2,
     in_transit_w2       |-> l.new_w1,
     cumulative_holding  |-> state.cumulative_holding + l.holding_cost,
     cumulative_shortage |-> state.cumulative_shortage + l.shortage_cost]

\* StepState keeping the step's costs instead of accumulating them.
StepStateOverwritesCosts(l) ==
    [end_inventory       |-> l.end_inventory,
     in_transit_w1       |-> l.new_w1,
     in_transit_w2       |-> l.new_w2,
     cumulative_holding  |-> l.holding_cost,
     cumulative_shortage |-> l.shortage_cost]

\* The SimState a successful step installs.
StepState(l) ==
    [end_inventory       |-> l.end_inventory,
     in_transit_w1       |-> l.new_w1,
     in_transit_w2       |-> l.new_w2,
     cumulative_holding  |-> state.cumulative_holding + l.holding_cost,
     cumulative_shortage |-> state.cumulative_shortage + l.shortage_cost]

\* StepReturn with done one step late (t > number of periods).
StepReturnLateDone(l, st, tt) ==
    [holding_cost    |-> l.holding_cost,
     shortage_cost   |-> l.shortage_cost,
     round_cost      |-> l.holding_cost + l.shortage_cost,
     cumulative_cost |-> st.cumulative_holding + st.cumulative_shortage,
     t               |-> tt,
     done            |-> IF tt > Len(sales) THEN 1 ELSE 0]

\* The metrics record a successful step returns (st is the new state, tt the new t).
StepReturn(l, st, tt) ==
    [holding_cost    |-> l.holding_cost,
     shortage_cost   |-> l.shortage_cost,
     round_cost      |-> l.holding_cost + l.shortage_cost,
     cumulative_cost |-> st.cumulative_holding + st.cumulative_shortage,
     t               |-> tt,
     done            |-> IF tt >= Len(sales) THEN 1 ELSE 0]

\* step(orders) with a period left to play.
StepOk(orders) ==
    /\ t < Len(sales)
    /\ LET l == StepLocals(orders)
           st == StepState(l)
       IN  /\ state' = st
           /\ t' = t + 1
           /\ ret' = StepReturn(l, st, t + 1)
           /\ trail' = Append(trail, [locals |-> l, metrics |-> StepReturn(l, st, t + 1)])
    /\ op' = [name |-> "step", orders |-> orders]
    /\ UNCHANGED <<sales, costs, snap>>
    /\ UNCHANGED polvars

\* A step past the last period that carries on without demand: the
\* pipeline moves, t advances, nothing is raised.
StepFailSilent(orders) ==
    /\ t >= Len(sales)
    /\ state' = [state EXCEPT !.end_inventory = [k \in Keys |-> @[k] + state.in_transit_w1[k]],
                              !.in_transit_w1 = state.in_transit_w2,
                              !.in_transit_w2 = AlignOrders(orders)]
    /\ t' = t + 1
    /\ ret' = [holding_cost |-> 0, shortage_cost |-> 0, round_cost |-> 0,
               cumulative_cost |-> state.cumulative_holding + state.cumulative_shortage,
               t |-> t + 1, done |-> 1]
    /\ op' = [name |-> "step", orders |-> orders]
    /\ UNCHANGED <<sales, costs, snap, trail>>
    /\ UNCHANGED polvars

\* step(orders) past the last period: self.dates[self.t] raises IndexError
\* in current_demand, before anything is assigned.
StepFail(orders) ==
    /\ t >= Len(sales)
    /\ ret' = [error |-> "IndexError"]
    /\ op' = [name |-> "step", orders |-> orders]
    /\ UNCHANGED <<sales, costs, state, t, snap, trail>>
    /\ UNCHANGED polvars

Step == \E orders \in OrderSeries : StepOk(orders) \/ StepFail(orders)

\* ResetState leaving the cost accumulators of the previous run.
ResetStateKeepsCosts(st) ==
    [state EXCEPT
        !.end_inventory       = st["End Inventory"],
        !.in_transit_w1       = Get(st, "In Transit W+1", ZeroCol),
        !.in_transit_w2       = Get(st, "In Transit W+2", ZeroCol)]

\* The SimState reset_to leaves: the five fields are assigned in place.
ResetState(st) ==
    [state EXCEPT
        !.end_inventory       = st["End Inventory"],
        !.in_transit_w1       = Get(st, "In Transit W+1", ZeroCol),
        !.in_transit_w2       = Get(st, "In Transit W+2", ZeroCol),
        !.cumulative_holding  = SumOver(Get(st, "Cumulative Holding Cost", ZeroCol), Keys),
        !.cumulative_shortage = SumOver(Get(st, "Cumulative Shortage Cost", ZeroCol), Keys)]

reset_to(st) ==
    /\ state' = ResetState(st)
    /\ t' = 0
    /\ op' = [name |-> "reset_to", after |-> t]
    /\ ret' = [none |-> TRUE]
    /\ snap' = st
    /\ trail' = <<>>
    /\ UNCHANGED <<sales, costs>>
    /\ UNCHANGED polvars

Reset == \E st \in Snapshots : reset_to(st)

inventory_position ==
    [k \in Keys |-> state.end_inventory[k] + state.in_transit_w1[k] + state.in_transit_w2[k]]

Init ==
    /\ sales \in SalesTables
    /\ costs \in CostsChoices
    /\ snap \in Snapshots
    /\ state = InitialState(snap)
    /\ t = 0
    /\ op = [name |-> "__init__"]
    /\ ret = [none |-> TRUE]
    /\ trail = <<>>
    /\ call = [index_df |-> <<>>]
    /\ levels = {}
    /\ order_qty = {}

Next == Step \/ Reset

Spec == Init /\ [][Next]_vars

----------------------------------------------------------------------------
(* policy.py.  A real number x is the integer nearest x * Scale (fixed       *)
(* point, six decimals); products and quotients are rounded down.            *)

Scale == 1000000

RECURSIVE Pow10(_)
Pow10(k) == IF k = 0 THEN 1 ELSE 10 * Pow10(k - 1)

\* a * b for b >= 0, computed in pieces that stay below 2^31
MulFix(a, b) ==
    LET a1 == a \div 1000
        a0 == a % 1000
        b1 == b \div 1000
        b0 == b % 1000
    IN  a1 * b1 + (a1 * b0 + a0 * b1 + (a0 * b0) \div 1000) \div 1000

\* a * b for b of either sign
MulSigned(a, b) == IF b >= 0 THEN MulFix(a, b) ELSE -MulFix(a, -b)

RECURSIVE DivDigits(_, _, _)
DivDigits(r, d, k) ==
    IF k = 0 THEN 0
    ELSE ((r * 10) \div d) * Pow10(k - 1) + DivDigits((r * 10) % d, d, k - 1)

\* n / d for d > 0
DivFix(n, d) == (n \div d) * Scale + DivDigits(n % d, d, 6)

RECURSIVE SqrtSearch(_, _, _)
SqrtSearch(lo, hi, w) ==
    IF hi - lo <= 1 THEN lo
    ELSE LET mid == (lo + hi) \div 2
         IN  IF MulFix(mid, mid) <= w THEN SqrtSearch(mid, hi, w)
             ELSE SqrtSearch(lo, mid, w)

\* math.sqrt(w) for 0 <= w < 36
SqrtFix(w) == SqrtSearch(0, 6 * Scale, w)

RECURSIVE Pow2Below(_)
Pow2Below(n) == IF n < 2 THEN 1 ELSE 2 * Pow2Below(n \div 2)

RECURSIVE Log2Floor(_)
Log2Floor(n) == IF n < 2 THEN 0 ELSE 1 + Log2Floor(n \div 2)

\* math.log(p) for p = n / Scale, n >= 1: ln n - ln Scale, with
\* ln n = e ln 2 + 2 atanh((n - 2^e) / (n + 2^e)), 2^e <= n < 2^(e+1)
LnFix(n) ==
    LET pw  == Pow2Below(n)
        y   == DivFix(n - pw, n + pw)
        y2  == MulFix(y, y)
        y3  == MulFix(y2, y)
        y5  == MulFix(y3, y2)
        y7  == MulFix(y5, y2)
        y9  == MulFix(y7, y2)
        y11 == MulFix(y9, y2)
    IN  Log2Floor(n) * 693147
        + 2 * (y + y3 \div 3 + y5 \div 5 + y7 \div 7 + y9 \div 9 + y11 \div 11)
        - 13815511

\* Coefficients a, b, c, d of the rational approximations
AcklamA == <<-39696830, 220946098, -275928510, 138357752, -30664798, 2506628>>
AcklamB == <<-54476099, 161585837, -155698980, 66801312, -13280682>>
AcklamC == <<-7785, -322396, -2400758, -2549733, 4374664, 2938164>>
AcklamD == <<7785, 322467, 2445134, 3754409>>

plow == 24250
phigh == Scale - plow

\* ((c[1] x + c[2]) x + ...) x + c[n], x >= 0
RECURSIVE Horner(_, _, _)
Horner(c, n, x) ==
    IF n = 1 THEN c[1] ELSE MulFix(Horner(c, n - 1, x), x) + c[n]

\* -math.inf and math.inf
NegInf == -(2000 * Scale)
PosInf == 2000 * Scale

\* The tail formula in q = sqrt(-2 ln p)
TailRatio(q) ==
    DivFix(Horner(AcklamC, 6, q), MulFix(Horner(AcklamD, 4, q), q) + Scale)

\* _inv_normal_cdf(p)
inv_normal_cdf(p) ==
    IF p <= 0 THEN NegInf
    ELSE IF p >= Scale THEN PosInf
    ELSE IF p < plow THEN TailRatio(SqrtFix(-2 * LnFix(p)))
    ELSE IF phigh < p THEN -TailRatio(SqrtFix(-2 * LnFix(Scale - p)))
    ELSE LET q == p - Scale \div 2
             r == MulSigned(q, q)
         IN  DivFix(MulSigned(Horner(AcklamA, 6, r), q),
                    MulFix(Horner(AcklamB, 5, r), r) + Scale)

----------------------------------------------------------------------------
(* compute_base_stock_levels and compute_orders *)

MaxLead == 1
MaxRows == 2

PolicyKeys == {"a", "b", "c"}

Half == Scale \div 2

Stats(m, sd) == [mean_demand |-> m, std_demand |-> sd]
Position(h, o) == [on_hand |-> h, on_order |-> o]

\* demand_stats tables: key -> (mean_demand, std_demand)
StatsTables ==
    { ("a" :> Stats(4 * Scale, 0)) @@ ("b" :> Stats(4 * Scale, 2 * Scale))
         @@ ("c" :> Stats(2 * Scale + Half, 2 * Scale)),
      ("a" :> Stats(2 * Scale + Half, 0)) @@ ("b" :> Stats(3 * Scale + Half, 0)),
      ("a" :> Stats(3 * Scale + Half, Scale)),
      ("b" :> Stats(4 * Scale, 0)) @@ ("c" :> Stats(0, 0)) }

\* current_state tables: key -> (on_hand, on_order)
StateTables ==
    { ("a" :> Position(Scale, 0)) @@ ("b" :> Position(Scale, 2 * Scale + Half)),
      ("b" :> Position(-2 * Scale, 0)) @@ ("c" :> Position(0, 3 * Scale)) }

\* index_df: the rows of the index, in order
IndexTables == UNION {[1..n -> PolicyKeys] : n \in 1..MaxRows}

\* An optional argument is {} for None and {v} for the value v.
Calls ==
    [index_df : IndexTables,
     demand_stats : StatsTables,
     current_state : StateTables,
     lead_time_weeks : 0..MaxLead,
     review_period_weeks : {0, 1},
     shortage_cost_per_unit : {Scale},
     holding_cost_per_unit_per_week : {Scale \div 5, 5 * Scale},
     min_service_level : {{}, {990000}},
     max_order_per_item : {{}, {2 * Scale + Half}, {3 * Scale + Half}}]

\* cu / (cu + co) with cu = max(shortage, 1e-9), co = max(co_effective, 1e-12);
\* the two floors are below one unit of the fixed point.
CostRatio(shortage, co_effective) ==
    IF shortage > 0 /\ co_effective > 0 THEN DivFix(shortage, shortage + co_effective)
    ELSE IF shortage > 0 THEN Scale - 1
    ELSE IF co_effective > 0 THEN DivFix(1, 1 + 1000 * co_effective)
    ELSE DivFix(1000, 1001)

service_level_of(c) ==
    LET protection_weeks == c.lead_time_weeks + c.review_period_weeks
        co_effective == (c.holding_cost_per_unit_per_week * Max(protection_weeks, 0)) \div 2
        ratio == CostRatio(c.shortage_cost_per_unit, co_effective)
        floored == IF c.min_service_level = {} THEN ratio
                   ELSE Max(ratio, CHOOSE m \in c.min_service_level : TRUE)
    IN  Min(Max(floored, 1), Scale - 1)

\* BaseStockOf taking the safety stock off the mean.
BaseStockOfMinusSafety(row, z, protection_weeks) ==
    LET mean_p == Max(row.mean_demand, 0) * protection_weeks
        std_p == MulFix(Max(row.std_demand, 0), SqrtFix(protection_weeks * Scale))
        safety == MulFix(z, std_p)
    IN  Max(mean_p - safety, 0)

\* base stock of one row of demand_stats, for the z of the call
BaseStockOf(row, z, protection_weeks) ==
    LET mean_p == Max(row.mean_demand, 0) * protection_weeks
        std_p == MulFix(Max(row.std_demand, 0), SqrtFix(protection_weeks * Scale))
        safety == MulFix(z, std_p)
    IN  Max(mean_p + safety, 0)

compute_base_stock_levels(c) ==
    LET protection_weeks == c.lead_time_weeks + c.review_period_weeks
        z == inv_normal_cdf(service_level_of(c))
    IN  [k \in DOMAIN c.demand_stats |-> BaseStockOf(c.demand_stats[k], z, protection_weeks)]

\* Reindex reading the index from its last row to its first.
ReindexReversed(table, index, fill) ==
    [i \in 1..Len(index) |->
        IF index[Len(index) + 1 - i] \in DOMAIN table
        THEN table[index[Len(index) + 1 - i]] ELSE fill]

\* table.reindex(index).fillna(fill): one entry per index row
Reindex(table, index, fill) ==
    [i \in 1..Len(index) |-> IF index[i] \in DOMAIN table THEN table[index[i]] ELSE fill]

\* Rint with a tie going up (round half away from zero).
RintHalfUp(x) ==
    LET f == x \div Scale
        r == x % Scale
    IN  IF 2 * r < Scale THEN f ELSE f + 1

\* np.rint: nearest integer, a tie going to the even one
Rint(x) ==
    LET f == x \div Scale
        r == x % Scale
    IN  IF 2 * r < Scale THEN f
        ELSE IF 2 * r > Scale THEN f + 1
        ELSE IF f % 2 = 0 THEN f ELSE f + 1

\* raw, before rounding, for row i
RawOrders(c) ==
    LET base_stock == Reindex(compute_base_stock_levels(c), c.index_df, 0)
        st == Reindex(c.current_state, c.index_df, Position(0, 0))
        position == [i \in 1..Len(c.index_df) |->
                        Max(st[i].on_hand, 0) + Max(st[i].on_order, 0)]
        raw == [i \in 1..Len(c.index_df) |-> Max(base_stock[i] - position[i], 0)]
    IN  IF c.max_order_per_item = {} THEN raw
        ELSE [i \in 1..Len(c.index_df) |->
                 Min(raw[i], CHOOSE m \in c.max_order_per_item : TRUE)]

compute_orders(c) ==
    LET raw == RawOrders(c)
    IN  [i \in 1..Len(c.index_df) |-> Rint(raw[i])]

BaseStockCall ==
    /\ levels = {}
    /\ levels' = {compute_base_stock_levels(call)}
    /\ UNCHANGED <<call, order_qty>>
    /\ UNCHANGED simvars

OrdersCall ==
    /\ order_qty = {}
    /\ order_qty' = {compute_orders(call)}
    /\ UNCHANGED <<call, levels>>
    /\ UNCHANGED simvars

PolicyInit ==
    /\ call \in Calls
    /\ levels = {}
    /\ order_qty = {}
    /\ sales = <<Col(0, 3)>>
    /\ costs = DefaultCosts
    /\ snap = ("End Inventory" :> Col(0, 2))
    /\ state = InitialState(snap)
    /\ t = 0
    /\ op = [name |-> "__init__"]
    /\ ret = [none |-> TRUE]
    /\ trail = <<>>

PolicyNext == BaseStockCall \/ OrdersCall

PolicySpec == PolicyInit /\ [][PolicyNext]_vars

----------------------------------------------------------------------------
(* Properties of the simulator *)

Failed == "error" \in DOMAIN ret

\* The SimState the i-th step of the run started from.
StateBefore(i) ==
    IF i = 1 THEN InitialState(snap)
    ELSE [end_inventory |-> trail[i - 1].locals.end_inventory,
          in_transit_w1 |-> trail[i - 1].locals.new_w1,
          in_transit_w2 |-> trail[i - 1].locals.new_w2]

RECURSIVE SumHolding(_)
SumHolding(n) == IF n = 0 THEN 0 ELSE trail[n].metrics.holding_cost + SumHolding(n - 1)

RECURSIVE SumShortage(_)
SumShortage(n) == IF n = 0 THEN 0 ELSE trail[n].metrics.shortage_cost + SumShortage(n - 1)

\* C1: in every step of a run, for every key, with start_inventory the
\* previous end_inventory plus the previous in_transit_w1 and sales the
\* smaller of start_inventory and the period's demand, the step's new
\* end_inventory plus sales is start_inventory and its missed is demand less
\* sales; the state holds the last step's end_inventory.
UnitsConserved ==
    /\ \A i \in 1..Len(trail) : \A k \in Keys :
          LET start == StateBefore(i).end_inventory[k] + StateBefore(i).in_transit_w1[k]
              demand == sales[i][k]
              sold == Min(start, demand)
          IN  /\ trail[i].locals.end_inventory[k] + sold = start
              /\ trail[i].locals.missed[k] = demand - sold
    /\ Len(trail) > 0 => state.end_inventory = trail[Len(trail)].locals.end_inventory

UnitsConservedWitness ==
    /\ Len(trail) = 3
    /\ trail[3].locals.missed["k2"] > 0
    /\ trail[3].locals.end_inventory["k1"] > 0
    /\ trail[3].locals.sales["k1"] > 0

\* The quantity that reaches the shelf at the start of the i-th step of the
\* run: the order of step i - 2, or what the snapshot had in the pipeline.
Arrival(i) ==
    IF i >= 3 THEN trail[i - 2].locals.orders
    ELSE IF i = 2 THEN InitialState(snap).in_transit_w2
    ELSE InitialState(snap).in_transit_w1

\* C2: the order given to a step (a key left out or a negative quantity
\* counting as 0, as the step takes it) is in_transit_w2 after that step,
\* in_transit_w1 after the next one, and is added to start_inventory in the
\* step after that and in no other: every step's start_inventory is the
\* previous end_inventory plus the order of two steps before.
OrderArrivesTwoPeriodsLater ==
    LET n == Len(trail)
    IN  /\ (op.name = "step" /\ ~Failed) =>
              \A k \in Keys :
                 state.in_transit_w2[k] =
                    IF k \in DOMAIN op.orders /\ op.orders[k] >= 0 THEN op.orders[k] ELSE 0
        /\ n >= 1 => state.in_transit_w2 = trail[n].locals.orders
        /\ n >= 2 => state.in_transit_w1 = trail[n - 1].locals.orders
        /\ \A i \in 1..n : \A k \in Keys :
              /\ trail[i].locals.start_inventory[k] =
                    (IF i = 1 THEN InitialState(snap).end_inventory[k]
                     ELSE trail[i - 1].locals.end_inventory[k]) + Arrival(i)[k]
              /\ trail[i].locals.end_inventory[k] =
                    trail[i].locals.start_inventory[k] - trail[i].locals.sales[k]

OrderArrivesWitness ==
    /\ Len(trail) = 3
    /\ trail[1].locals.orders["k1"] = 2
    /\ trail[2].locals.orders["k1"] = 0
    /\ trail[2].locals.start_inventory["k1"] = 0
    /\ trail[3].locals.start_inventory["k1"] = 2

\* C3 as stated: after n steps cumulative_holding is the sum of the
\* holding_cost the n steps returned, and cumulative_shortage the sum of
\* their shortage_cost, whatever the snapshot.
CumulativeIsSumOfSteps ==
    /\ state.cumulative_holding = SumHolding(Len(trail))
    /\ state.cumulative_shortage = SumShortage(Len(trail))

\* C3, amended: after n steps cumulative_holding is the snapshot's
\* cumulative holding cost (the sum of its column, 0 without the column)
\* plus the sum of the holding_cost the n steps returned; the same for
\* cumulative_shortage.
CumulativeIsSnapshotPlusSteps ==
    /\ t = Len(trail)
    /\ state.cumulative_holding =
          SumOver(Get(snap, "Cumulative Holding Cost", ZeroCol), Keys) + SumHolding(Len(trail))
    /\ state.cumulative_shortage =
          SumOver(Get(snap, "Cumulative Shortage Cost", ZeroCol), Keys) + SumShortage(Len(trail))

CumulativeWitness ==
    /\ Len(trail) = 3
    /\ "Cumulative Holding Cost" \in DOMAIN snap
    /\ \A i \in 1..3 : trail[i].metrics.holding_cost > 0
    /\ trail[2].metrics.shortage_cost > 0

\* C4: a reset_to(snapshot), after whatever steps, leaves the state a
\* constructor leaves for that snapshot and t = 0, the inventory position is
\* the snapshot's End Inventory + In Transit W+1 + In Transit W+2 (an absent
\* column counting as 0), and the demand table and the costs are untouched.
ResetIsFreshStart ==
    [][op'.name = "reset_to" =>
          /\ state' = InitialState(snap')
          /\ t' = 0
          /\ \A k \in Keys :
                inventory_position'[k] =
                    snap'["End Inventory"][k]
                    + (IF "In Transit W+1" \in DOMAIN snap' THEN snap'["In Transit W+1"][k] ELSE 0)
                    + (IF "In Transit W+2" \in DOMAIN snap' THEN snap'["In Transit W+2"][k] ELSE 0)
          /\ sales' = sales
          /\ costs' = costs]_vars

ResetWitness ==
    /\ op.name = "reset_to"
    /\ op.after = 3
    /\ "In Transit W+1" \notin DOMAIN snap
    /\ state.cumulative_holding = 2
    /\ inventory_position = Col(1, 3)

\* C9: the i-th step of a run returns t = i, and done (1.0) exactly when
\* i >= the number of periods: the steps before the last period return 0,
\* the step of the last period returns 1, and no run has more steps.
DoneAfterAllPeriods ==
    /\ t = Len(trail)
    /\ Len(trail) <= Len(sales)
    /\ \A i \in 1..Len(trail) :
          /\ trail[i].metrics.t = i
          /\ trail[i].metrics.done = (IF i >= Len(sales) THEN 1 ELSE 0)
          /\ trail[i].metrics.done = 1 <=> i = Len(sales)
    /\ (op.name = "step" /\ ~Failed) => ret = trail[Len(trail)].metrics

DoneWitness ==
    /\ Len(sales) = 3
    /\ Len(trail) = 3
    /\ ret = trail[3].metrics
    /\ ret.done = 1
    /\ trail[2].metrics.done = 0

\* C10: a step called when t >= the number of periods raises the
\* out-of-range error and leaves the state and t as they were.
StepPastEndFails ==
    [][(op'.name = "step" /\ t >= Len(sales)) =>
          /\ ret' = [error |-> "IndexError"]
          /\ state' = state
          /\ t' = t]_vars

StepPastEndWitness ==
    /\ op.name = "step"
    /\ Failed
    /\ t = Len(sales)
    /\ Len(trail) = Len(sales)
    /\ trail[Len(trail)].metrics.done = 1

----------------------------------------------------------------------------
(* Properties of the policy *)

Cap == CHOOSE m \in call.max_order_per_item : TRUE

\* C5: every order quantity compute_orders returns is an integer >= 0 and,
\* with a cap set (any cap >= 0, whole or not), is at most the cap.
OrdersWithinCap ==
    \A q \in order_qty : \A i \in DOMAIN q :
        /\ q[i] \in Nat
        /\ call.max_order_per_item # {} => q[i] * Scale <= Cap

\* C6: each order is the integer nearest raw = min(cap, max(0, base_stock -
\* inventory_position)); when raw is k + 0.5 the order is the even one of k
\* and k + 1 (2.5 -> 2, 3.5 -> 4, 0.5 -> 0).
RoundsHalfToEven ==
    \A q \in order_qty :
        LET raw == RawOrders(call)
        IN  \A i \in DOMAIN q :
               /\ q[i] * Scale - raw[i] <= Half
               /\ raw[i] - q[i] * Scale <= Half
               /\ raw[i] % Scale = Half => q[i] % 2 = 0
               /\ raw[i] = 2 * Scale + Half => q[i] = 2
               /\ raw[i] = 3 * Scale + Half => q[i] = 4
               /\ raw[i] = Half => q[i] = 0

RoundsHalfToEvenWitness ==
    \E q \in order_qty :
        /\ Len(q) = 2
        /\ RawOrders(call)[1] = 2 * Scale + Half
        /\ q[1] = 2
        /\ RawOrders(call)[2] = 3 * Scale + Half
        /\ q[2] = 4
        /\ call.max_order_per_item = {}

\* C7 as stated: between two rows of demand_stats, under the same call,
\* the base stock does not decrease when mean_demand grows with std_demand
\* equal, nor when std_demand grows with mean_demand equal, whatever the
\* service level.
BaseStockMonotone ==
    \A tbl \in levels : \A k1, k2 \in DOMAIN tbl :
        LET r1 == call.demand_stats[k1]
            r2 == call.demand_stats[k2]
        IN  /\ (r1.mean_demand <= r2.mean_demand /\ r1.std_demand = r2.std_demand)
                  => tbl[k1] <= tbl[k2]
            /\ (r1.std_demand <= r2.std_demand /\ r1.mean_demand = r2.mean_demand)
                  => tbl[k1] <= tbl[k2]

\* C7, amended: the base stock is non-decreasing in mean_demand; it is
\* non-decreasing in std_demand when the service level used (after the
\* min_service_level floor and the clamp) is at least 0.5.
BaseStockMonotoneAboveHalf ==
    \A tbl \in levels : \A k1, k2 \in DOMAIN tbl :
        LET r1 == call.demand_stats[k1]
            r2 == call.demand_stats[k2]
        IN  /\ DOMAIN tbl = DOMAIN call.demand_stats
            /\ tbl[k1] >= 0
            /\ (r1.mean_demand <= r2.mean_demand /\ r1.std_demand = r2.std_demand)
                  => tbl[k1] <= tbl[k2]
            /\ (r1.std_demand <= r2.std_demand /\ r1.mean_demand = r2.mean_demand
                  /\ service_level_of(call) >= Half)
                  => tbl[k1] <= tbl[k2]

BaseStockMonotoneWitness ==
    \E tbl \in levels :
        /\ {"a", "b", "c"} \subseteq DOMAIN tbl
        /\ service_level_of(call) > Half
        /\ service_level_of(call) < 990000
        /\ tbl["a"] < tbl["b"]
        /\ tbl["c"] < tbl["b"]

\* The order of one key, from that key's own rows of the two tables.
OrderOfKey(k, base_stock) ==
    LET base == IF k \in DOMAIN call.demand_stats THEN base_stock[k] ELSE 0
        hand == IF k \in DOMAIN call.current_state
                THEN Max(call.current_state[k].on_hand, 0) ELSE 0
        due  == IF k \in DOMAIN call.current_state
                THEN Max(call.current_state[k].on_order, 0) ELSE 0
        raw  == Max(base - (hand + due), 0)
    IN  Rint(IF call.max_order_per_item = {} THEN raw ELSE Min(raw, Cap))

\* C8: compute_orders returns one order per row of the index, row i holding
\* the order of the key of row i; a key without demand statistics has base
\* stock 0 and order 0, a key without a current-state row counts as on_hand 0
\* and on_order 0, and keys outside the index take no part.
OrdersAlignedToIndex ==
    \A q \in order_qty :
        LET base_stock == compute_base_stock_levels(call)
        IN  /\ DOMAIN q = 1..Len(call.index_df)
            /\ \A i \in DOMAIN q :
                  /\ q[i] = OrderOfKey(call.index_df[i], base_stock)
                  /\ call.index_df[i] \notin DOMAIN call.demand_stats => q[i] = 0

OrdersAlignedWitness ==
    \E q \in order_qty :
        /\ Len(q) = 2
        /\ call.index_df[1] \notin DOMAIN call.demand_stats
        /\ q[1] = 0
        /\ call.index_df[2] \notin DOMAIN call.current_state
        /\ q[2] > 0
        /\ \E k \in DOMAIN call.demand_stats : \A i \in 1..2 : call.index_df[i] # k
        /\ \E k \in DOMAIN call.current_state : \A i \in 1..2 : call.index_df[i] # k

----------------------------------------------------------------------------
(* Non-negativity in the simulator *)

\* The snapshot's inventory and pipeline columns hold no negative quantity.
NonNegativeSnapshot ==
    \A name \in DOMAIN snap \cap {"End Inventory", "In Transit W+1", "In Transit W+2"} :
        \A k \in Keys : snap[name][k] >= 0

\* No period of the demand table has a negative demand.
NonNegativeDemand == \A i \in 1..Len(sales) : \A k \in Keys : sales[i][k] >= 0

\* C11: from a snapshot without negative inventory or pipeline quantities,
\* with a demand table without negative demand, whatever orders the steps
\* are given (negative ones, keys left out), every state has end_inventory,
\* in_transit_w1 and in_transit_w2 >= 0 for every key, and every step has
\* missed >= 0 for every key, holding_cost >= 0 and shortage_cost >= 0.
NeverNegative ==
    (NonNegativeSnapshot /\ NonNegativeDemand) =>
        /\ \A k \in Keys :
              /\ state.end_inventory[k] >= 0
              /\ state.in_transit_w1[k] >= 0
              /\ state.in_transit_w2[k] >= 0
        /\ \A i \in 1..Len(trail) :
              /\ \A k \in Keys : trail[i].locals.missed[k] >= 0
              /\ trail[i].metrics.holding_cost >= 0
              /\ trail[i].metrics.shortage_cost >= 0

NeverNegativeWitness ==
    /\ NonNegativeSnapshot
    /\ NonNegativeDemand
    /\ Len(trail) = 3
    /\ op.name = "step"
    /\ ~Failed
    /\ DOMAIN op.orders = {"k1"}
    /\ op.orders["k1"] < 0
    /\ state.in_transit_w2 = ZeroCol
    /\ \E k \in Keys : trail[1].locals.orders[k] > 0
    /\ \E k \in Keys : trail[3].locals.missed[k] > 0

====
